---- MODULE Spec2Model ----
(***************************************************************************)
(* The real-time position synchronisation of The Ether.                    *)
(*                                                                         *)
(* Server: setupSocketServer (src/lib/server/socket.ts, listed in          *)
(* src/app_sbs.md): a socket.io relay with rooms "space:<id>".             *)
(* Client: the EtherSpace component (ether-space.svelte) over the          *)
(* module-level socket of src/lib/socket-client.ts (src/app_sbs.md), and   *)
(* the emitWithRetry variant of socket-client.ts (src/app_plan.md).        *)
(*                                                                         *)
(* socket.io sends the packets of one connection in order, so every        *)
(* connection has one FIFO channel per direction.                          *)
(***************************************************************************)
EXTENDS Integers, Sequences, FiniteSets, TLC

\* ------------------------------------------------------------------ bounds
MaxFlight == 3      \* packets in flight, all connections and directions
MaxUser == 2        \* user actions (drag, add, delete) in one behaviour
MaxPending == 4     \* emitWithRetry calls in one behaviour
QueueCapacity == 2  \* the capacity the pending queue is to keep to
MaxId == 2          \* ids that createId() hands out
MaxNow == 2         \* days that pass
MaxReq == 2         \* HTTP requests
SessionDays == 1    \* the life of a session: 7 days in the code
maxItems == 2       \* the capacity of the cache: 100 in the code
MaxClock == 2       \* milliseconds that pass

\* ------------------------------------------------------------ value sets
Conns == {1, 2, 3}            \* connections, ordered like their socket ids
Rooms == {"r1", "r2"}         \* space ids
BadRoom == ""                 \* the empty space id
RoomIds == Rooms \cup {BadRoom}   \* what a space:join can name
Positions == {1, 2, 3}        \* positions a user can drag an item to
AddedItem == "i2"             \* the item a content:add carries
RetryEvents == {"e1", "e2", "e3"}

\* initialItems of the page: one item at position 0.  ver and by annotate
\* the copy with the move it stems from (the code stores neither).
InitialItems == << [id |-> "i1", pos |-> 0, ver |-> 0, by |-> 0] >>

VARIABLES
  status,      \* [Conns -> idle|live|down|closing|closed]
  rooms,       \* [RoomIds -> SUBSET Conns]: socket.io's room membership
  toServer,    \* [Conns -> Seq(packet)]: emitted by the client, not yet handled
  toClient,    \* [Conns -> Seq(packet)]: emitted by the server, not yet handled
  mounted,     \* [Conns -> BOOLEAN]: an EtherSpace component is alive
  space,       \* [Conns -> Rooms]: its spaceId prop
  items,       \* [Conns -> Seq(item)]: its items
  nextVer,     \* the stamp of the next user action: 1 + their number so far
  issued,      \* Seq(record): the drags so far
  deleted,     \* [Rooms -> [id -> version]]: content:delete events the server got
  missed,      \* [Conns -> Seq(packet)]: broadcasts of its rooms while it was down
  wasIn,       \* [Conns -> SUBSET Rooms]: the rooms it was in when it went down
  pendingMessages,  \* emitWithRetry's queue
  connected,        \* socket.connected of the emitWithRetry socket
  emitted,          \* Seq(event): what socket.emit was called with
  nFlushed,         \* how many of them the connect handler emitted
  called,           \* Seq(event): what emitWithRetry was called with
  users,       \* the rows of the users table
  sessions,    \* the rows of the sessions table
  now,         \* new Date(), in days
  nextId,      \* createId(): the next id it returns
  cookie,      \* the browser's 'session' cookie, 0 when it has none
  request,     \* the last HTTP request and what the store held for it
  response,    \* the response to it
  localsUser,  \* event.locals.user of the last request: a user id, or 0
  cache,       \* MemoryManager.cache: Seq of entries in the Map's order
  clockMs      \* Date.now()

syncVars == << status, rooms, toServer, toClient, mounted, space, items,
               nextVer, issued, deleted, missed, wasIn >>
retryVars == << pendingMessages, connected, emitted, nFlushed, called >>
authVars == << users, sessions, now, nextId, cookie, request, response,
               localsUser >>
cacheVars == << cache, clockMs >>

\* No request yet.
NoRequest ==
  [n |-> 0, kind |-> "none", email |-> "", valid |-> FALSE, failed |-> FALSE,
   sid |-> 0, found |-> FALSE, userId |-> 0]
vars == << status, rooms, toServer, toClient, mounted, space, items,
           nextVer, issued, deleted, missed, wasIn, pendingMessages, connected,
           emitted, nFlushed, called, users, sessions, now, nextId, cookie,
           request, response, localsUser, cache, clockMs >>

ItemIds == {"i1", AddedItem}

Init ==
  /\ status = [c \in Conns |-> "idle"]
  /\ rooms = [r \in RoomIds |-> {}]
  /\ toServer = [c \in Conns |-> << >>]
  /\ toClient = [c \in Conns |-> << >>]
  /\ mounted = [c \in Conns |-> FALSE]
  /\ space = [c \in Conns |-> "r1"]
  /\ items = [c \in Conns |-> << >>]
  /\ nextVer = 1
  /\ issued = << >>
  /\ deleted = [r \in Rooms |-> [i \in ItemIds |-> 0]]
  /\ missed = [c \in Conns |-> << >>]
  /\ wasIn = [c \in Conns |-> {}]
  /\ pendingMessages = << >>
  /\ connected = FALSE
  /\ emitted = << >>
  /\ nFlushed = 0
  /\ called = << >>
  /\ users = {}
  /\ sessions = {}
  /\ now = 0
  /\ nextId = 1
  /\ cookie = 0
  /\ request = NoRequest
  /\ response = [code |-> 0, to |-> ""]
  /\ localsUser = 0
  /\ cache = << >>
  /\ clockMs = 0

Emails == {"a@x", "b@x"}
Passwords == {"p", "q"}
FormPasswords == Passwords \cup {""}
Salts == {"s1", "s2"}
Keys == {"k1", "k2", "k3"}
Data == {"v1", "v2"}

\* ------------------------------------------------------------- the server

\* io.to(room).emit(ev) in place of socket.to(room).emit(ev)
RecipientsWithSender(r, c) == rooms[r]

\* socket.broadcast.emit(ev) in place of socket.to(room).emit(ev)
RecipientsAnyRoom(r, c) == {k \in Conns : status[k] = "live"} \ {c}

\* socket.to(room).emit(ev): every socket of the room except the sender.
Recipients(r, c) == rooms[r] \ {c}

RECURSIVE SumLen(_, _)
SumLen(ch, S) ==
  IF S = {} THEN 0
  ELSE LET k == CHOOSE x \in S : TRUE IN Len(ch[k]) + SumLen(ch, S \ {k})

InFlight == SumLen(toServer, Conns) + SumLen(toClient, Conns)

\* The handled packet leaves the network, one packet per recipient enters it.
CanBroadcast(r, c) == InFlight - 1 + Cardinality(Recipients(r, c)) <= MaxFlight

\* The packet is put in front of what the recipient has not handled yet.
BroadcastFirst(r, c, out) ==
  [k \in Conns |-> IF k \in Recipients(r, c)
                   THEN << out >> \o toClient[k] ELSE toClient[k]]

Broadcast(r, c, out) ==
  [k \in Conns |-> IF k \in Recipients(r, c)
                   THEN Append(toClient[k], out) ELSE toClient[k]]

\* What a connection that is down would have been sent: the broadcasts of the
\* rooms it was in (kept for the replay properties; the server keeps nothing).
Missed(r, c, out) ==
  [k \in Conns |-> IF status[k] = "down" /\ r \in wasIn[k] /\ k # c
                   THEN Append(missed[k], out) ELSE missed[k]]

Handles(c, type) ==
  /\ status[c] \in {"live", "closing"}
  /\ toServer[c] # << >>
  /\ Head(toServer[c]).type = type

\* socket.on('space:join')
SrvJoin(c) ==
  /\ Handles(c, "join")
  /\ LET m == Head(toServer[c])
         out == [type |-> "joined", from |-> c] IN
     /\ CanBroadcast(m.room, c)
     /\ rooms' = [rooms EXCEPT ![m.room] = @ \cup {c}]
     /\ toClient' = Broadcast(m.room, c, out)
     /\ missed' = Missed(m.room, c, out)
  /\ toServer' = [toServer EXCEPT ![c] = Tail(@)]
  /\ UNCHANGED << status, mounted, space, items, nextVer, issued, deleted, wasIn >>
  /\ UNCHANGED << retryVars, authVars, cacheVars >>

\* A space:leave handler without socket.leave.
SrvLeaveKeeps(c) ==
  /\ Handles(c, "leave")
  /\ LET m == Head(toServer[c])
         out == [type |-> "left", from |-> c] IN
     /\ CanBroadcast(m.room, c)
     /\ UNCHANGED rooms
     /\ toClient' = Broadcast(m.room, c, out)
     /\ missed' = Missed(m.room, c, out)
  /\ toServer' = [toServer EXCEPT ![c] = Tail(@)]
  /\ UNCHANGED << status, mounted, space, items, nextVer, issued, deleted, wasIn >>
  /\ UNCHANGED << retryVars, authVars, cacheVars >>

\* socket.on('space:leave'): socket.leave, then user:left to the room
SrvLeave(c) ==
  /\ Handles(c, "leave")
  /\ LET m == Head(toServer[c])
         out == [type |-> "left", from |-> c] IN
     /\ CanBroadcast(m.room, c)
     /\ rooms' = [rooms EXCEPT ![m.room] = @ \ {c}]
     /\ toClient' = Broadcast(m.room, c, out)
     /\ missed' = Missed(m.room, c, out)
  /\ toServer' = [toServer EXCEPT ![c] = Tail(@)]
  /\ UNCHANGED << status, mounted, space, items, nextVer, issued, deleted, wasIn >>
  /\ UNCHANGED << retryVars, authVars, cacheVars >>

\* content:moved {contentId, position}; ver and from annotate the packet with
\* the move it relays and the socket that sent that move.
MovedOf(c, m) ==
  [type |-> "moved", id |-> m.id, pos |-> m.pos, ver |-> m.ver, from |-> c]

\* socket.on('content:move'): relayed to the room named in the packet
SrvMove(c) ==
  /\ Handles(c, "move")
  /\ LET m == Head(toServer[c]) IN
     /\ CanBroadcast(m.room, c)
     /\ toClient' = Broadcast(m.room, c, MovedOf(c, m))
     /\ missed' = Missed(m.room, c, MovedOf(c, m))
  /\ toServer' = [toServer EXCEPT ![c] = Tail(@)]
  /\ UNCHANGED << status, rooms, mounted, space, items, nextVer, issued,
                  deleted, wasIn >>
  /\ UNCHANGED << retryVars, authVars, cacheVars >>

\* socket.on('content:add')
SrvAdd(c) ==
  /\ Handles(c, "add")
  /\ LET m == Head(toServer[c])
         out == [type |-> "added", id |-> m.id, from |-> c] IN
     /\ CanBroadcast(m.room, c)
     /\ toClient' = Broadcast(m.room, c, out)
     /\ missed' = Missed(m.room, c, out)
  /\ toServer' = [toServer EXCEPT ![c] = Tail(@)]
  /\ UNCHANGED << status, rooms, mounted, space, items, nextVer, issued,
                  deleted, wasIn >>
  /\ UNCHANGED << retryVars, authVars, cacheVars >>

\* content:delete: io.on('connection') registers no listener for it, so
\* socket.io drops the packet.  deleted remembers the highest version seen.
SrvDelete(c) ==
  /\ Handles(c, "delete")
  /\ LET m == Head(toServer[c]) IN
     deleted' = [deleted EXCEPT ![m.room][m.id] = IF m.ver > @ THEN m.ver ELSE @]
  /\ toServer' = [toServer EXCEPT ![c] = Tail(@)]
  /\ UNCHANGED << status, rooms, toClient, mounted, space, items, nextVer, issued,
                  missed, wasIn >>
  /\ UNCHANGED << retryVars, authVars, cacheVars >>

\* socket.io takes a disconnected socket out of all its rooms.
WithoutConn(c) == [r \in RoomIds |-> rooms[r] \ {c}]

RoomsOf(c) == {r \in RoomIds : c \in rooms[r]}

\* socket.on('disconnect') after the client's socket.disconnect(): logs only.
SrvDisconnect(c) ==
  /\ status[c] = "closing"
  /\ toServer[c] = << >>
  /\ status' = [status EXCEPT ![c] = "closed"]
  /\ rooms' = WithoutConn(c)
  /\ toClient' = [toClient EXCEPT ![c] = << >>]
  /\ UNCHANGED << toServer, mounted, space, items, nextVer, issued, deleted,
                  missed, wasIn >>
  /\ UNCHANGED << retryVars, authVars, cacheVars >>

\* The transport is lost: socket.on('disconnect') on the server (logs only),
\* the packets in flight are gone, socket.io-client will reconnect.
Drop(c) ==
  /\ status[c] = "live"
  /\ status' = [status EXCEPT ![c] = "down"]
  /\ wasIn' = [wasIn EXCEPT ![c] = RoomsOf(c)]
  /\ missed' = [missed EXCEPT ![c] = << >>]
  /\ rooms' = WithoutConn(c)
  /\ toClient' = [toClient EXCEPT ![c] = << >>]
  /\ toServer' = [toServer EXCEPT ![c] = << >>]
  /\ UNCHANGED << mounted, space, items, nextVer, issued, deleted >>
  /\ UNCHANGED << retryVars, authVars, cacheVars >>

\* socket.io-client reconnects: io.on('connection') registers the handlers
\* for the socket, which is in no room; nothing is sent to it.
ReplayOnConnect(c) == << >>

\* A closed socket is connected again.
ReconnectClosed(c) ==
  /\ status[c] \in {"down", "closed"}
  /\ status' = [status EXCEPT ![c] = "live"]
  /\ toClient' = [toClient EXCEPT ![c] = ReplayOnConnect(c)]
  /\ UNCHANGED << rooms, toServer, mounted, space, items, nextVer, issued,
                  deleted, missed, wasIn >>
  /\ UNCHANGED << retryVars, authVars, cacheVars >>

Reconnect(c) ==
  /\ status[c] = "down"
  /\ status' = [status EXCEPT ![c] = "live"]
  /\ toClient' = [toClient EXCEPT ![c] = ReplayOnConnect(c)]
  /\ UNCHANGED << rooms, toServer, mounted, space, items, nextVer, issued,
                  deleted, missed, wasIn >>
  /\ UNCHANGED << retryVars, authVars, cacheVars >>

\* ------------------------------------------------------------- the client

CanEmit(c) ==
  /\ mounted[c]
  /\ status[c] \in {"live", "down"}
  /\ InFlight < MaxFlight

\* $effect of EtherSpace: initSocket() connects, space:join is emitted, the
\* listeners of content:moved and content:added are registered.
Mount(c, r) ==
  /\ status[c] = "idle"
  /\ InFlight < MaxFlight
  /\ status' = [status EXCEPT ![c] = "live"]
  /\ mounted' = [mounted EXCEPT ![c] = TRUE]
  /\ space' = [space EXCEPT ![c] = r]
  /\ items' = [items EXCEPT ![c] = InitialItems]
  /\ toServer' = [toServer EXCEPT ![c] = << [type |-> "join", room |-> r] >>]
  /\ UNCHANGED << rooms, toClient, nextVer, issued, deleted, missed, wasIn >>
  /\ UNCHANGED << retryVars, authVars, cacheVars >>

\* items.findIndex(item => item.id === id)
FindIndex(its, id) ==
  IF \E i \in 1..Len(its) : its[i].id = id
  THEN CHOOSE i \in 1..Len(its) :
         its[i].id = id /\ \A j \in 1..(i - 1) : its[j].id # id
  ELSE 0

\* updateItemPosition, lines 72-82: the copy of the item is replaced.
Replaced(its, id, pos, ver, by) ==
  LET i == FindIndex(its, id) IN
  IF i > 0
  THEN [its EXCEPT ![i] = [id |-> id, pos |-> pos, ver |-> ver, by |-> by]]
  ELSE its

\* updateItemPosition, lines 85-91: content:move is emitted in every call.
MoveOf(c, id, pos, ver) ==
  [type |-> "move", room |-> space[c], id |-> id, pos |-> pos, ver |-> ver]

\* A drag: handleMouseMove calls updateItemPosition for an item on screen.
UserMove(c, i, p) ==
  /\ CanEmit(c)
  /\ nextVer <= MaxUser
  /\ i \in 1..Len(items[c])
  /\ items' = [items EXCEPT ![c] = Replaced(@, items[c][i].id, p, nextVer, c)]
  /\ toServer' = [toServer EXCEPT
                    ![c] = Append(@, MoveOf(c, items[c][i].id, p, nextVer))]
  /\ nextVer' = nextVer + 1
  /\ issued' = Append(issued, [ver |-> nextVer, pos |-> p, by |-> c,
                                id |-> items[c][i].id, room |-> space[c],
                                shared |-> /\ c \in rooms[space[c]]
                                           /\ rooms[space[c]] \ {c} # {}])
  /\ UNCHANGED << status, rooms, toClient, mounted, space, deleted,
                  missed, wasIn >>
  /\ UNCHANGED << retryVars, authVars, cacheVars >>

Receives(c, types) ==
  /\ mounted[c]
  /\ status[c] = "live"
  /\ toClient[c] # << >>
  /\ Head(toClient[c]).type \in types

\* socket.on('content:moved'): updateItemPosition(data.contentId, data.position)
RecvMoved(c) ==
  /\ Receives(c, {"moved"})
  /\ LET m == Head(toClient[c]) IN
     /\ items' = [items EXCEPT ![c] = Replaced(@, m.id, m.pos, m.ver, m.from)]
     /\ toServer' = [toServer EXCEPT
                       ![c] = Append(@, MoveOf(c, m.id, m.pos, m.ver))]
  /\ toClient' = [toClient EXCEPT ![c] = Tail(@)]
  /\ UNCHANGED << status, rooms, mounted, space, nextVer, issued, deleted,
                  missed, wasIn >>
  /\ UNCHANGED << retryVars, authVars, cacheVars >>

\* socket.on('content:added'): items = [...items, data.content]
RecvAdded(c) ==
  /\ Receives(c, {"added"})
  /\ LET m == Head(toClient[c]) IN
     items' = [items EXCEPT
                 ![c] = Append(@, [id |-> m.id, pos |-> 0, ver |-> 0,
                                   by |-> m.from])]
  /\ toClient' = [toClient EXCEPT ![c] = Tail(@)]
  /\ UNCHANGED << status, rooms, toServer, mounted, space, nextVer, issued,
                  deleted, missed, wasIn >>
  /\ UNCHANGED << retryVars, authVars, cacheVars >>

\* user:joined and user:left: EtherSpace registers no listener for them.
RecvPresence(c) ==
  /\ Receives(c, {"joined", "left"})
  /\ toClient' = [toClient EXCEPT ![c] = Tail(@)]
  /\ UNCHANGED << status, rooms, toServer, mounted, space, items, nextVer, issued,
                  deleted, missed, wasIn >>
  /\ UNCHANGED << retryVars, authVars, cacheVars >>

\* The cleanup $effect: emit space:leave, then socket.disconnect().
Destroy(c) ==
  /\ mounted[c]
  /\ status[c] = "live"
  /\ InFlight < MaxFlight
  /\ mounted' = [mounted EXCEPT ![c] = FALSE]
  /\ status' = [status EXCEPT ![c] = "closing"]
  /\ toServer' = [toServer EXCEPT
                    ![c] = Append(@, [type |-> "leave", room |-> space[c]])]
  /\ UNCHANGED << rooms, toClient, space, items, nextVer, issued, deleted,
                  missed, wasIn >>
  /\ UNCHANGED << retryVars, authVars, cacheVars >>

\* The cleanup $effect of a page whose socket is not connected: space:leave
\* goes to the socket's buffer and is never sent; socket.disconnect() ends
\* the reconnection of a socket that is down.
DestroyOffline(c) ==
  /\ mounted[c]
  /\ status[c] \in {"down", "closing", "closed"}
  /\ mounted' = [mounted EXCEPT ![c] = FALSE]
  /\ status' = [status EXCEPT ![c] = IF @ = "down" THEN "closed" ELSE @]
  /\ toServer' = [toServer EXCEPT ![c] = IF status[c] = "down" THEN << >> ELSE @]
  /\ UNCHANGED << rooms, toClient, space, items, nextVer, issued, deleted,
                  missed, wasIn >>
  /\ UNCHANGED << retryVars, authVars, cacheVars >>

\* The $effect of a page created after the cleanup: initSocket() returns the
\* socket it holds, which socket.disconnect() has closed and which nothing
\* connects again; space:join stays in its buffer.
Remount(c, r) ==
  /\ ~mounted[c]
  /\ status[c] \in {"closing", "closed"}
  /\ mounted' = [mounted EXCEPT ![c] = TRUE]
  /\ space' = [space EXCEPT ![c] = r]
  /\ items' = [items EXCEPT ![c] = InitialItems]
  /\ UNCHANGED << status, rooms, toServer, toClient, nextVer, issued, deleted,
                  missed, wasIn >>
  /\ UNCHANGED << retryVars, authVars, cacheVars >>

\* Events of the wire protocol that the server accepts from any connected
\* socket: a space:join or a space:leave for any space id, a content:add, a
\* content:delete.
WireJoin(c, r) ==
  /\ CanEmit(c)
  /\ status[c] = "live"
  /\ toServer' = [toServer EXCEPT ![c] = Append(@, [type |-> "join", room |-> r])]
  /\ UNCHANGED << status, rooms, toClient, mounted, space, items, nextVer, issued,
                  deleted, missed, wasIn >>
  /\ UNCHANGED << retryVars, authVars, cacheVars >>

WireLeave(c, r) ==
  /\ CanEmit(c)
  /\ status[c] = "live"
  /\ toServer' = [toServer EXCEPT ![c] = Append(@, [type |-> "leave", room |-> r])]
  /\ UNCHANGED << status, rooms, toClient, mounted, space, items, nextVer, issued,
                  deleted, missed, wasIn >>
  /\ UNCHANGED << retryVars, authVars, cacheVars >>

WireAdd(c) ==
  /\ CanEmit(c)
  /\ status[c] = "live"
  /\ nextVer <= MaxUser
  /\ nextVer' = nextVer + 1
  /\ toServer' = [toServer EXCEPT
                    ![c] = Append(@, [type |-> "add", room |-> space[c],
                                      id |-> AddedItem])]
  /\ UNCHANGED << status, rooms, toClient, mounted, space, items, issued, deleted,
                  missed, wasIn >>
  /\ UNCHANGED << retryVars, authVars, cacheVars >>

WireDelete(c, id) ==
  /\ CanEmit(c)
  /\ status[c] = "live"
  /\ nextVer <= MaxUser
  /\ nextVer' = nextVer + 1
  /\ toServer' = [toServer EXCEPT
                    ![c] = Append(@, [type |-> "delete", room |-> space[c],
                                      id |-> id, ver |-> nextVer])]
  /\ UNCHANGED << status, rooms, toClient, mounted, space, items, issued,
                  deleted, missed, wasIn >>
  /\ UNCHANGED << retryVars, authVars, cacheVars >>

\* ------------------------------------------- emitWithRetry (app_plan)

\* emitWithRetry(event, data)
\* An emitWithRetry that calls socket.emit whether or not it queues.
EmitWithRetryTwice(e) ==
  /\ Len(emitted) + Len(pendingMessages) < MaxPending
  /\ called' = Append(called, e)
  /\ emitted' = Append(emitted, e)
  /\ IF connected
     THEN UNCHANGED pendingMessages
     ELSE pendingMessages' = Append(pendingMessages, e)
  /\ UNCHANGED << connected, nFlushed >>
  /\ UNCHANGED << syncVars, authVars, cacheVars >>

EmitWithRetry(e) ==
  /\ Len(emitted) + Len(pendingMessages) < MaxPending
  /\ called' = Append(called, e)
  /\ IF connected
     THEN /\ emitted' = Append(emitted, e)
          /\ UNCHANGED pendingMessages
     ELSE /\ pendingMessages' = Append(pendingMessages, e)
          /\ UNCHANGED emitted
  /\ UNCHANGED << connected, nFlushed >>
  /\ UNCHANGED << syncVars, authVars, cacheVars >>

\* A connect handler that emits the oldest pending message only.
OnConnectOne ==
  /\ ~connected
  /\ connected' = TRUE
  /\ UNCHANGED called
  /\ IF pendingMessages = << >>
     THEN UNCHANGED << emitted, nFlushed, pendingMessages >>
     ELSE /\ emitted' = Append(emitted, Head(pendingMessages))
          /\ nFlushed' = nFlushed + 1
          /\ pendingMessages' = Tail(pendingMessages)
  /\ UNCHANGED << syncVars, authVars, cacheVars >>

\* A connect handler without pendingMessages = [].
OnConnectKeeps ==
  /\ ~connected
  /\ connected' = TRUE
  /\ UNCHANGED called
  /\ emitted' = emitted \o pendingMessages
  /\ nFlushed' = nFlushed + Len(pendingMessages)
  /\ UNCHANGED pendingMessages
  /\ UNCHANGED << syncVars, authVars, cacheVars >>

\* socket.on('connect'): the pending messages are emitted, the queue is reset
OnConnect ==
  /\ ~connected
  /\ connected' = TRUE
  /\ UNCHANGED called
  /\ emitted' = emitted \o pendingMessages
  /\ nFlushed' = nFlushed + Len(pendingMessages)
  /\ pendingMessages' = << >>
  /\ UNCHANGED << syncVars, authVars, cacheVars >>

\* The socket of emitWithRetry loses its connection.
OnDisconnect ==
  /\ connected
  /\ connected' = FALSE
  /\ UNCHANGED << pendingMessages, emitted, nFlushed, called >>
  /\ UNCHANGED << syncVars, authVars, cacheVars >>

\* -------------------------------------------- accounts and sessions

\* crypto.pbkdf2(password, salt, iterations, 64, 'sha512'): the derived key
\* is a function of the three, different for different arguments.
Kdf(password, salt, iterations) == << password, salt, iterations >>

\* hashPassword: `pbkdf2:1000:${salt}:${derivedKey}` with a random salt
hashPassword(password, salt) ==
  << "pbkdf2", 1000, salt, Kdf(password, salt, 1000) >>

\* verifyPassword: the four parts are split and the key is derived again
verifyPassword(storedHash, password) ==
  /\ Len(storedHash) = 4
  /\ storedHash[1] = "pbkdf2"
  /\ Kdf(password, storedHash[3], storedHash[2]) = storedHash[4]

\* db.query.users.findFirst({ where: eq(users.email, email) })
UsersByEmail(email) == {u \in users : u.email = email}

\* findUserById
UsersById(id) == {u \in users : u.id = id}

\* findSessionById
SessionsById(id) == {x \in sessions : x.id = id}

\* fail(code, ...), redirect(code, to), a rendered page
Fail(code) == [code |-> code, to |-> ""]
Redirect(code, to) == [code |-> code, to |-> to]
Page == [code |-> 200, to |-> ""]

\* try { ... throw redirect(303, to) } catch (error) { return fail(500, ...) }
\* The catch clause takes whatever the try block throws, the redirect too.
Caught(thrown) == Fail(500)

\* register: actions.default.  dbFails: the first database query throws.
Register(email, password, confirmPassword, salt, dbFails) ==
  LET missing == password = "" \/ confirmPassword = ""
      unused == UsersByEmail(email) = {}
      valid == ~missing /\ password = confirmPassword /\ unused
      inserts == valid /\ ~dbFails
  IN
  /\ request.n < MaxReq
  /\ inserts => nextId <= MaxId
  /\ request' = [NoRequest EXCEPT !.n = request.n + 1, !.kind = "register",
                                  !.email = email, !.valid = valid,
                                  !.failed = dbFails]
  /\ response' =
       IF missing THEN Fail(400)
       ELSE IF password # confirmPassword THEN Fail(400)
       ELSE IF dbFails THEN Fail(500)
       ELSE IF ~unused THEN Fail(400)
       ELSE Caught(Redirect(303, "/login?registered=true"))
  /\ users' =
       IF inserts
       THEN users \cup {[id |-> nextId, email |-> email,
                         passwordHash |-> hashPassword(password, salt)]}
       ELSE users
  /\ nextId' = IF inserts THEN nextId + 1 ELSE nextId
  /\ localsUser' = 0
  /\ UNCHANGED << sessions, now, cookie >>
  /\ UNCHANGED << syncVars, retryVars, cacheVars >>

\* login: actions.default.  A session id is made and put in the cookie; no
\* row is written to the sessions table.
Login(email, password, dbFails) ==
  LET found == UsersByEmail(email)
      valid == /\ password # ""
               /\ \E u \in found : verifyPassword(u.passwordHash, password)
      passes == valid /\ ~dbFails
  IN
  /\ request.n < MaxReq
  /\ passes => nextId <= MaxId
  /\ request' = [NoRequest EXCEPT !.n = request.n + 1, !.kind = "login",
                                  !.email = email, !.valid = valid,
                                  !.failed = dbFails]
  /\ response' =
       IF password = "" THEN Fail(400)
       ELSE IF dbFails THEN Fail(500)
       ELSE IF found = {} THEN Fail(400)
       ELSE IF ~valid THEN Fail(400)
       ELSE Caught(Redirect(303, "/app"))
  /\ cookie' = IF passes THEN nextId ELSE cookie
  /\ nextId' = IF passes THEN nextId + 1 ELSE nextId
  /\ localsUser' = 0
  /\ UNCHANGED << users, sessions, now >>
  /\ UNCHANGED << syncVars, retryVars, cacheVars >>

\* createSession(userId): a row that expires in a week.  No route calls it,
\* and it does not look the user up.
CreateSession(userId) ==
  /\ nextId <= MaxId
  /\ sessions' = sessions \cup {[id |-> nextId, userId |-> userId,
                                 expiresAt |-> now + SessionDays]}
  /\ nextId' = nextId + 1
  /\ UNCHANGED << users, now, cookie, request, response, localsUser >>
  /\ UNCHANGED << syncVars, retryVars, cacheVars >>

\* A validateSession without the comparison of the dates.
NeverExpired(x) == FALSE

\* new Date() > session.expiresAt
Expired(x) == now > x.expiresAt

\* validateSession accepts the session row x.
Validates(x) == ~Expired(x) /\ UsersById(x.userId) # {}

\* A request for a page under /app carrying the session cookie sid: handle
\* (validateSession, locals.user) and then the layout's load.
RequestApp(sid) ==
  LET found == IF sid = 0 THEN {} ELSE SessionsById(sid)
      good == {x \in found : Validates(x)}
  IN
  /\ request.n < MaxReq
  /\ request' = [NoRequest EXCEPT
                   !.n = request.n + 1, !.kind = "app", !.sid = sid,
                   !.found = found # {}, !.valid = good # {},
                   !.userId = IF found = {} THEN 0
                              ELSE (CHOOSE x \in found : TRUE).userId]
  /\ sessions' = sessions \ (found \ good)
  /\ localsUser' = IF good = {} THEN 0 ELSE (CHOOSE x \in good : TRUE).userId
  /\ response' = IF good = {} THEN Redirect(302, "/login") ELSE Page
  /\ UNCHANGED << users, now, nextId, cookie >>
  /\ UNCHANGED << syncVars, retryVars, cacheVars >>

\* A day passes.
Tick ==
  /\ now < MaxNow
  /\ now' = now + 1
  /\ UNCHANGED << users, sessions, nextId, cookie, request, response,
                  localsUser >>
  /\ UNCHANGED << syncVars, retryVars, cacheVars >>

\* ------------------------------------------- MemoryManager (app_plan)

\* this.cache.get(key): the place of the key's entry in the Map, 0 if none
KeyIndex(c, key) ==
  IF \E i \in 1..Len(c) : c[i].key = key
  THEN CHOOSE i \in 1..Len(c) : c[i].key = key
  ELSE 0

\* entries.sort((a, b) => a[1].lastAccessed - b[1].lastAccessed)[0]: the
\* sort is stable, so of the entries read at the same millisecond the one
\* the Map holds first.
OldestIndex(c) ==
  CHOOSE i \in 1..Len(c) :
    \A j \in 1..Len(c) :
      \/ c[j].lastAccessed > c[i].lastAccessed
      \/ c[j].lastAccessed = c[i].lastAccessed /\ j >= i

\* this.cache.delete(key)
Without(c, i) == SubSeq(c, 1, i - 1) \o SubSeq(c, i + 1, Len(c))

\* this.cache.set(key, entry): an existing key keeps its place in the Map
MapSet(c, entry) ==
  IF KeyIndex(c, entry.key) > 0
  THEN [c EXCEPT ![KeyIndex(c, entry.key)] = entry]
  ELSE Append(c, entry)

\* set(key, value): at capacity the oldest entry goes, whatever the key is
CacheSet(key, value) ==
  /\ LET kept == IF Len(cache) >= maxItems
                 THEN Without(cache, OldestIndex(cache))
                 ELSE cache
     IN  cache' = MapSet(kept, [key |-> key, data |-> value,
                                lastAccessed |-> clockMs])
  /\ UNCHANGED clockMs
  /\ UNCHANGED << syncVars, retryVars, authVars >>

\* get(key)
CacheGet(key) ==
  /\ cache' = IF KeyIndex(cache, key) > 0
              THEN [cache EXCEPT ![KeyIndex(cache, key)].lastAccessed = clockMs]
              ELSE cache
  /\ UNCHANGED clockMs
  /\ UNCHANGED << syncVars, retryVars, authVars >>

\* clear()
CacheClear ==
  /\ cache' = << >>
  /\ UNCHANGED clockMs
  /\ UNCHANGED << syncVars, retryVars, authVars >>

\* A millisecond passes.
ClockTick ==
  /\ clockMs < MaxClock
  /\ clockMs' = clockMs + 1
  /\ UNCHANGED cache
  /\ UNCHANGED << syncVars, retryVars, authVars >>

\* ------------------------------------------------ the specifications

\* The relay: three clients, two spaces.  Client 1 shows r1, client 3 shows
\* r2, client 2 either.  Client c drags to position c; clients 1 and 2 drag
\* the first item, client 1 adds one, client 2 closes its page, client 3
\* also joins, once, the space its page does not show.
Next ==
  \/ \E c \in Conns : SrvJoin(c)
  \/ \E c \in Conns : SrvLeave(c)
  \/ \E c \in Conns : SrvMove(c)
  \/ \E c \in Conns : SrvAdd(c)
  \/ \E c \in Conns : SrvDisconnect(c)
  \/ \E c \in Conns, r \in Rooms :
       (c = 1 => r = "r1") /\ (c = 3 => r = "r2") /\ Mount(c, r)
  \/ \E c \in {1, 2} : UserMove(c, 1, c)
  \/ \E c \in Conns : RecvMoved(c)
  \/ \E c \in Conns : RecvAdded(c)
  \/ \E c \in Conns : RecvPresence(c)
  \/ \E c \in {2} : Destroy(c)
  \/ \E c \in {3}, r \in Rooms :
       r # space[c] /\ c \notin rooms[r] /\ toServer[c] = << >> /\ WireJoin(c, r)
  \/ \E c \in {1} : WireAdd(c)

Spec == Init /\ [][Next]_vars

\* The relay over a transport that drops and reconnects: two clients.
NextNet ==
  \/ \E c \in {1, 2} : SrvJoin(c)
  \/ \E c \in {1, 2} : SrvMove(c)
  \/ \E c \in {1, 2} : Mount(c, "r1")
  \/ \E c \in {1, 2}, p \in Positions : UserMove(c, 1, p)
  \/ \E c \in {1, 2} : RecvMoved(c)
  \/ \E c \in {1, 2} : RecvPresence(c)
  \/ \E c \in {1, 2} : Drop(c)
  \/ \E c \in {1, 2} : Reconnect(c)

SpecNet == Init /\ [][NextNet]_vars

\* The relay with content:delete events: two clients.
NextDelete ==
  \/ \E c \in {1, 2} : SrvJoin(c)
  \/ \E c \in {1, 2} : SrvMove(c)
  \/ \E c \in {1, 2} : SrvDelete(c)
  \/ \E c \in {1, 2}, r \in Rooms : Mount(c, r)
  \/ \E c \in {1, 2}, p \in Positions : UserMove(c, 1, p)
  \/ \E c \in {1, 2} : RecvMoved(c)
  \/ \E c \in {1, 2} : RecvPresence(c)
  \/ \E c \in {1, 2} : WireDelete(c, "i1")

SpecDelete == Init /\ [][NextDelete]_vars

\* emitWithRetry over a socket that connects and disconnects.
NextRetry ==
  \/ \E e \in RetryEvents : EmitWithRetry(e)
  \/ OnConnect
  \/ OnDisconnect

SpecRetry == Init /\ [][NextRetry]_vars

\* Membership: two pages on r1 whose sockets also send space:join and
\* space:leave for any space id, and close.
NextRegistry ==
  \/ \E c \in {1, 2} : SrvJoin(c)
  \/ \E c \in {1, 2} : SrvLeave(c)
  \/ \E c \in {1, 2} : SrvDisconnect(c)
  \/ \E c \in {1, 2} : Mount(c, "r1")
  \/ \E c \in {1, 2} : RecvPresence(c)
  \/ \E c \in {1, 2} : Destroy(c)
  \/ \E c \in {1, 2}, r \in RoomIds : WireJoin(c, r)
  \/ \E c \in {1, 2}, r \in RoomIds : WireLeave(c, r)

SpecRegistry == Init /\ [][NextRegistry]_vars

\* The life of a connection: two pages on r1 that drop, reconnect, close
\* and are created again.
NextLife ==
  \/ \E c \in {1, 2} : SrvJoin(c)
  \/ \E c \in {1, 2} : SrvLeave(c)
  \/ \E c \in {1, 2} : SrvDisconnect(c)
  \/ \E c \in {1, 2} : Mount(c, "r1")
  \/ \E c \in {1, 2} : RecvPresence(c)
  \/ \E c \in {1, 2} : Destroy(c)
  \/ \E c \in {1, 2} : DestroyOffline(c)
  \/ \E c \in {1, 2} : Remount(c, "r1")
  \/ \E c \in {1, 2} : Drop(c)
  \/ \E c \in {1, 2} : Reconnect(c)

SpecLife == Init /\ [][NextLife]_vars

\* The handlers of the server and of the pages run when they have a packet
\* to handle; nothing obliges the network to drop or to come back, nor a
\* user to create or to close a page.
HandlersLife ==
  \E c \in {1, 2} :
    SrvJoin(c) \/ SrvLeave(c) \/ SrvDisconnect(c) \/ RecvPresence(c)

SpecLifeFair == SpecLife /\ WF_vars(HandlersLife)
\* Registration, login and page requests of one browser, over the days;
\* sessions are created for the users there are and for an id that is no
\* user's.
NextAuth ==
  \/ \E email \in Emails, password \in FormPasswords,
        confirmPassword \in FormPasswords, salt \in Salts, dbFails \in BOOLEAN :
       Register(email, password, confirmPassword, salt, dbFails)
  \/ \E email \in Emails, password \in FormPasswords, dbFails \in BOOLEAN :
       Login(email, password, dbFails)
  \/ \E userId \in {u.id : u \in users} \cup {MaxId + 1} : CreateSession(userId)
  \/ \E sid \in 0..MaxId : RequestApp(sid)
  \/ Tick

SpecAuth == Init /\ [][NextAuth]_vars

\* The cache under calls of set, get and clear as time passes.
NextCache ==
  \/ \E key \in Keys, value \in Data : CacheSet(key, value)
  \/ \E key \in Keys : CacheGet(key)
  \/ CacheClear
  \/ ClockTick

SpecCache == Init /\ [][NextCache]_vars

\* ------------------------------------------------------------ properties

\* The packets the server has sent to connection k that carry type t.
Sent(k, t) == {j \in 1..Len(toClient[k]) : toClient[k][j].type = t}

\* The server takes the message at the head of c's channel, of type t.
ServerTakes(c, t) ==
  /\ Handles(c, t)
  /\ toServer'[c] = Tail(toServer[c])
  /\ status' = status

\* toClient[k] grows by exactly one packet of type t that came from c.
GetsOne(k, t, c) ==
  /\ Len(toClient'[k]) = Len(toClient[k]) + 1
  /\ SubSeq(toClient'[k], 1, Len(toClient[k])) = toClient[k]
  /\ toClient'[k][Len(toClient'[k])].type = t
  /\ toClient'[k][Len(toClient'[k])].from = c

\* C1: a content:moved broadcast that the server produces from connection
\* c's content:move is never delivered to c itself.
NoSelfEcho ==
  \A c \in Conns : \A j \in Sent(c, "moved") : toClient[c][j].from # c

\* C1 happens: c's move is on its way to another member of c's space.
NoSelfEchoWitness ==
  \E r \in Rooms, c \in Conns, d \in Conns :
    /\ c # d
    /\ {c, d} \subseteq rooms[r]
    /\ \E j \in Sent(d, "moved") : toClient[d][j].from = c

\* C3: when the server handles a content:move or a content:add that
\* connection c sent for space r, every connection registered in r except c
\* gets exactly one content:moved (content:added) from it, and no other
\* connection gets anything.
BroadcastFanOut ==
  [][\A c \in Conns :
       (ServerTakes(c, "move") \/ ServerTakes(c, "add")) =>
         LET m == Head(toServer[c])
             out == IF m.type = "move" THEN "moved" ELSE "added"
         IN  \A k \in Conns :
               IF k \in rooms[m.room] /\ k # c
               THEN GetsOne(k, out, c)
               ELSE toClient'[k] = toClient[k]]_vars

\* C3 happens: a member of the space holds c's broadcast while a connection
\* registered only in another space holds nothing from c.
BroadcastFanOutWitness ==
  \E r \in Rooms, c \in Conns, k \in Conns, j \in Conns :
    /\ {c, k} \subseteq rooms[r] /\ c # k
    /\ j \notin rooms[r] /\ RoomsOf(j) # {} /\ status[j] = "live"
    /\ \E n \in Sent(k, "moved") \cup Sent(k, "added") : toClient[k][n].from = c
    /\ \A n \in 1..Len(toClient[j]) : toClient[j][n].from # c
\* No message is in flight in either direction.
Quiet == \A c \in Conns : toServer[c] = << >> /\ toClient[c] = << >>

\* The drags of item id that were issued for space r.
MovesOf(r, id) ==
  {issued[n] : n \in {j \in 1..Len(issued) :
                        issued[j].room = r /\ issued[j].id = id}}

\* The drag with the highest version.
Top(ms) == CHOOSE m \in ms : \A n \in ms : n.ver <= m.ver

\* The position connection c shows for item id.
HeldPos(c, id) == items[c][FindIndex(items[c], id)].pos

\* C2: once two connections have dragged the same item of a space, each as
\* a registered member next to another member, and no message is in flight
\* any more, each of them that is still a connected member of the space
\* shows the position of the drag with the highest version.
Convergence ==
  \A r \in Rooms :
    LET ms == MovesOf(r, "i1") IN
    (/\ Quiet
     /\ Cardinality({m.by : m \in ms}) >= 2
     /\ \A m \in ms : m.shared) =>
      \A c \in {m.by : m \in ms} :
        (c \in rooms[r] /\ status[c] = "live" /\ mounted[c]) =>
          HeldPos(c, "i1") = Top(ms).pos

\* The acceptance rule: a higher version, or the same version proposed by
\* the connection with the lower id.
LwwAccepts(ver, proposer, held) ==
  \/ ver > held.ver
  \/ ver = held.ver /\ proposer < held.by

\* C4: a connection that takes a content:moved for an item it holds shows
\* the update's position and version when the rule accepts the update, and
\* keeps its own position and version when the rule rejects it.
LastWriterWins ==
  [][\A c \in Conns :
       (/\ Receives(c, {"moved"})
        /\ toClient'[c] = Tail(toClient[c])
        /\ status'[c] = "live"
        /\ FindIndex(items[c], Head(toClient[c]).id) > 0) =>
         LET m == Head(toClient[c])
             i == FindIndex(items[c], m.id)
             held == items[c][i]
         IN  IF LwwAccepts(m.ver, m.from, held)
             THEN items'[c][i].pos = m.pos /\ items'[c][i].ver = m.ver
             ELSE items'[c][i].pos = held.pos /\ items'[c][i].ver = held.ver]_vars

\* C5: a page holds at most one copy of an item, and the version of a copy
\* never goes down.
MonotonicUnique ==
  [][\A c \in Conns :
       (mounted[c] /\ mounted'[c]) =>
         /\ \A i \in 1..Len(items'[c]), j \in 1..Len(items'[c]) :
              items'[c][i].id = items'[c][j].id => i = j
         /\ \A i \in 1..Len(items[c]) :
              /\ i <= Len(items'[c])
              /\ items'[c][i].ver >= items[c][i].ver]_vars

\* C6: once a content:delete with version V has been taken for an item of a
\* space, a content:move for that item with a version of at most V is
\* broadcast to nobody.
NoResurrection ==
  [][\A c \in Conns :
       ServerTakes(c, "move") =>
         LET m == Head(toServer[c]) IN
         (deleted[m.room][m.id] > 0 /\ m.ver <= deleted[m.room][m.id]) =>
           toClient' = toClient]_vars

\* C7: a connection that comes back after a drop is sent, in their order,
\* the broadcasts its spaces had while it was away.
ReplayOnReconnect ==
  [][\A c \in Conns :
       (status[c] = "down" /\ status'[c] = "live") =>
         toClient'[c] = missed[c]]_vars

\* C8: the queue of pending messages never holds more than QueueCapacity
\* entries.
BoundedQueue == Len(pendingMessages) <= QueueCapacity

\* C9: when the server takes c's space:join for a space that has other
\* members, each of them gets one user:joined and c gets one reply that
\* lists them; when it takes c's space:leave, each remaining member gets one
\* user:left.
PresenceSymmetry ==
  [][\A c \in Conns :
       /\ ServerTakes(c, "join") =>
            LET others == rooms[Head(toServer[c]).room] \ {c} IN
            others # {} =>
              /\ \A b \in others : GetsOne(b, "joined", c)
              /\ Len(toClient'[c]) = Len(toClient[c]) + 1
              /\ toClient'[c][Len(toClient'[c])].type = "snapshot"
              /\ others \subseteq toClient'[c][Len(toClient'[c])].members
       /\ ServerTakes(c, "leave") =>
            \A a \in rooms[Head(toServer[c]).room] \ {c} :
              GetsOne(a, "left", c)]_vars

\* C10: a connection is registered in at most one space.
OneRoomPerConnection == \A c \in Conns : Cardinality(RoomsOf(c)) <= 1
\* C11: a space:leave from a connection that is not registered in the named
\* space changes no membership and sends user:left to nobody.
LeaveIdempotent ==
  [][\A c \in Conns :
       ServerTakes(c, "leave") =>
         (c \notin rooms[Head(toServer[c]).room] =>
            rooms' = rooms /\ toClient' = toClient)]_vars
FlushBeforeNew ==
  [][/\ (~connected /\ connected') => emitted' = emitted \o pendingMessages
     /\ connected => pendingMessages = << >>
     /\ (connected /\ emitted' # emitted) => pendingMessages' = << >>]_vars

\* C14 happens: two or more queued messages were flushed and a message was
\* emitted directly as well.
FlushBeforeNewWitness ==
  connected /\ nFlushed >= 2 /\ Len(emitted) > nFlushed

CloseLeaves ==
  [][\A c \in Conns, r \in RoomIds :
       (c \in rooms[r] /\ c \notin rooms'[r] /\ status'[c] \in {"down", "closed"}) =>
         \A a \in rooms[r] \ {c} : GetsOne(a, "left", c)]_vars
\* C17: when the server takes a content:move or a content:add for a space,
\* a connection that is down and was a member of the space when it went down
\* has the event kept for it: its stream grows by that event.
QueuedWhenDown ==
  [][\A c \in Conns :
       (ServerTakes(c, "move") \/ ServerTakes(c, "add")) =>
         LET m == Head(toServer[c])
             out == IF m.type = "move" THEN "moved" ELSE "added"
         IN  \A k \in Conns \ {c} :
               (status[k] = "down" /\ m.room \in wasIn[k]) =>
                 GetsOne(k, out, c)]_vars
\* The server has taken the content:move of drag d: it is no longer on its
\* way from the connection that issued it.
Taken(d) ==
  \A j \in 1..Len(toServer[d.by]) :
    ~(toServer[d.by][j].type = "move" /\ toServer[d.by][j].ver = d.ver)

\* The server has taken a drag of the same item of the same space with a
\* higher version than m's.
StaleAtServer(m) ==
  \E n \in 1..Len(issued) :
    /\ issued[n].room = m.room /\ issued[n].id = m.id
    /\ issued[n].ver > m.ver
    /\ Taken(issued[n])

\* C18: a content:move whose version is lower than that of a move the server
\* has already taken for the item is broadcast to nobody.
StaleNotRelayed ==
  [][\A c \in Conns :
       ServerTakes(c, "move") =>
         (StaleAtServer(Head(toServer[c])) => toClient' = toClient)]_vars
\* C19: a space:join that names a malformed (empty) space id fails: it
\* registers nobody and notifies nobody.
JoinChecked ==
  [][\A c \in Conns :
       ServerTakes(c, "join") =>
         (Head(toServer[c]).room = BadRoom =>
            rooms' = rooms /\ toClient' = toClient)]_vars
\* C20: what the members of a space are told follows the registry: when a
\* connection becomes a member of a space each member already there is sent
\* user:joined for it, and when it stops being a member, for whatever
\* reason, each remaining member is sent user:left for it.
PresenceMatchesRegistry ==
  [][\A c \in Conns, r \in RoomIds :
       /\ (c \notin rooms[r] /\ c \in rooms'[r]) =>
            \A a \in rooms[r] : GetsOne(a, "joined", c)
       /\ (c \in rooms[r] /\ c \notin rooms'[r]) =>
            \A a \in rooms'[r] : GetsOne(a, "left", c)]_vars
\* C21: a space has members from its first join until its last member
\* leaves, and the server keeps nothing of it in between: the first join of
\* an empty space registers the joiner alone and sends nothing to anybody,
\* the leave of the last member leaves the space empty.
RoomLifecycle ==
  [][\A c \in Conns :
       /\ ServerTakes(c, "join") =>
            LET r == Head(toServer[c]).room IN
            rooms[r] = {} => rooms'[r] = {c} /\ toClient' = toClient
       /\ ServerTakes(c, "leave") =>
            LET r == Head(toServer[c]).room IN
            rooms[r] = {c} => rooms'[r] = {} /\ toClient' = toClient]_vars

\* C21 happens: connection 2 has dragged an item in a space and is gone, and
\* the only member the space has now shows the item as it was loaded.
RoomLifecycleWitness ==
  \E r \in Rooms, c \in Conns \ {2} :
    /\ status[2] = "closed" /\ space[2] = r
    /\ \E n \in 1..Len(issued) : issued[n].by = 2 /\ issued[n].room = r
    /\ rooms[r] = {c} /\ space[c] = r
    /\ mounted[c] /\ items[c] = InitialItems
    /\ Quiet
\* C22: a connection that is down does not stay down for ever: it comes back
\* or, when it does not, it is closed without anybody asking for it.
GraceExpiry ==
  \A c \in Conns : (status[c] = "down") ~> (status[c] \in {"live", "closed"})
\* The page of c handles the packet of type t at the head of its channel.
ClientTakes(c, t) ==
  /\ Receives(c, {t})
  /\ toClient'[c] = Tail(toClient[c])
  /\ status' = status

\* C25: a page that applies a content:moved it received only updates its
\* copy of the item: it sends nothing to the server, so one drag is followed
\* by finitely many messages.
MoveQuiescence ==
  [][\A c \in Conns :
       ClientTakes(c, "moved") => toServer'[c] = toServer[c]]_vars
\* C26: the members of a space get content:moved and content:added only for
\* events of its members: the server relays nothing for a content:move or a
\* content:add whose sender is not registered in the space it names.
RoomAttribution ==
  [][\A c \in Conns :
       /\ ServerTakes(c, "move") \/ ServerTakes(c, "add")
       /\ c \notin rooms[Head(toServer[c]).room]
       => toClient' = toClient]_vars
\* C27: every message passed to emitWithRetry is emitted once, in the order
\* of the calls: what was emitted, followed by what is queued, is what
\* emitWithRetry was called with, and nothing is queued while the socket is
\* connected.
ExactlyOnceInOrder ==
  /\ emitted \o pendingMessages = called
  /\ connected => pendingMessages = << >>

\* C27 happens: after calls made while connected and while disconnected,
\* with different messages, everything has been emitted, part of it by a
\* flush.
ExactlyOnceInOrderWitness ==
  /\ connected
  /\ Len(called) = MaxPending
  /\ emitted = called
  /\ nFlushed \in 1..(Len(called) - 1)
  /\ \E i, j \in 1..Len(called) : called[i] # called[j]
\* C28: a page that is shown has a socket that is connected, or that is
\* reconnecting: a page created after another was destroyed gets a socket
\* over which its space:join reaches the server.
RemountConnects ==
  \A c \in Conns : mounted[c] => status[c] \in {"live", "down"}
\* The step is the HTTP request of this kind.
Requests(kind) == request'.n = request.n + 1 /\ request'.kind = kind

\* C23: a login with an existing email and the right password creates a
\* session row for that user, and the cookie it sets holds the row's id.
LoginEstablishesSession ==
  [][(Requests("login") /\ request'.valid /\ ~request'.failed) =>
       \E x \in sessions' :
         /\ x.id = cookie'
         /\ \E u \in UsersByEmail(request'.email) : u.id = x.userId]_vars

\* C24: a login with valid credentials is answered with the redirect to
\* /app, a registration of an unused email with matching passwords with the
\* redirect to /login?registered=true, and 500 is the answer only when a
\* database operation failed.
AuthRedirects ==
  /\ (request.kind = "login" /\ request.valid /\ ~request.failed) =>
       response = Redirect(303, "/app")
  /\ (request.kind = "register" /\ request.valid /\ ~request.failed) =>
       response = Redirect(303, "/login?registered=true")
  /\ response.code = 500 => request.failed

\* C29: a request is given a user only for a stored session that has not
\* expired and whose user exists, and then that user; a stored session that
\* has expired, or whose user is missing, is deleted by the request and no
\* user is given; a session that has expired stays expired or is gone, and
\* new sessions get new ids.
SessionValidation ==
  [][/\ Requests("app") =>
          LET found == {x \in sessions : x.id = request'.sid}
              ok(x) == ~(now > x.expiresAt) /\ \E u \in users : u.id = x.userId
          IN  /\ localsUser' # 0 =>
                   \E x \in found : ok(x) /\ localsUser' = x.userId
              /\ \A x \in found : ~ok(x) => x \notin sessions' /\ localsUser' = 0
              /\ \A x \in found : ok(x) => x \in sessions' /\ localsUser' = x.userId
     /\ \A x \in sessions : now > x.expiresAt => now' > x.expiresAt
     /\ \A x \in sessions' \ sessions : \A y \in sessions : x.id > y.id]_vars

\* C29 happens: the last request carried the id of a stored session of an
\* existing user, after the session's last day; it got no user and the row
\* is gone.
SessionValidationWitness ==
  /\ request.kind = "app" /\ request.found /\ ~request.valid
  /\ UsersById(request.userId) # {}
  /\ SessionsById(request.sid) = {}
  /\ localsUser = 0
  /\ now > SessionDays
\* C30: the cache never holds more than maxItems entries, and a set takes
\* an entry out only when the cache is full and the key it sets is new, and
\* then an entry with the oldest lastAccessed.
CacheBound ==
  [][/\ Len(cache') <= maxItems
     /\ cache' # << >> =>
          \A i \in 1..Len(cache) :
            KeyIndex(cache', cache[i].key) = 0 =>
              /\ Len(cache) = maxItems
              /\ \E j \in 1..Len(cache') : KeyIndex(cache, cache'[j].key) = 0
              /\ \A j \in 1..Len(cache) :
                   cache[j].lastAccessed >= cache[i].lastAccessed]_vars
====
